---- MODULE Spec2Model ----
(***************************************************************************)
(* Model of the /summarize handler of app.py (extractive summarization).   *)
(*                                                                         *)
(* A text is a sequence of lexemes; a lexeme is a tuple of one-character   *)
(* strings (a word, a punctuation mark or a run of whitespace), so that    *)
(* str.lower, str.isalnum and str.strip are computed character by          *)
(* character.  A score is the exact quotient <<numerator, denominator>>;   *)
(* for the small integers of the model the float quotients of the program  *)
(* compare as the exact quotients do.                                      *)
(***************************************************************************)
EXTENDS Integers, Sequences, FiniteSets, TLC

(* ---------------------------- bounds ----------------------------------- *)
MaxLen == 5        \* lexemes in a generated text
MaxPadded == 3     \* lexemes in a generated text with whitespace around it
MaxCount == 3      \* largest digit offered in the summary_sentences field

(* ---------------------------- characters ------------------------------- *)
LowerSeq == <<"a","b","c","d","e","f","g","h","i","j","k","l","m",
              "n","o","p","q","r","s","t","u","v","w","x","y","z">>
UpperSeq == <<"A","B","C","D","E","F","G","H","I","J","K","L","M",
              "N","O","P","Q","R","S","T","U","V","W","X","Y","Z">>
DigitSeq == <<"0","1","2","3","4","5","6","7","8","9">>
WhitespaceChars == {" "}

Range(s) == {s[i] : i \in DOMAIN s}

UpperChars == Range(UpperSeq)
AlnumChars == Range(LowerSeq) \cup Range(UpperSeq) \cup Range(DigitSeq)
LowerOf ==
    [c \in UpperChars |->
        LowerSeq[CHOOSE i \in DOMAIN UpperSeq : UpperSeq[i] = c]]

\* str.lower() on one character
LowerChar(c) == IF c \in UpperChars THEN LowerOf[c] ELSE c

\* str.lower()
lower(w) == [i \in DOMAIN w |-> LowerChar(w[i])]

\* str.isalnum(): non-empty and every character a letter or a digit
isalnum(w) ==
    /\ Len(w) > 0
    /\ \A i \in DOMAIN w : w[i] \in AlnumChars

\* a lexeme made of whitespace only
IsSpace(w) == \A i \in DOMAIN w : w[i] \in WhitespaceChars

(* ---------------------------- vocabulary ------------------------------- *)
The == <<"T","h","e">>
cat == <<"c","a","t">>
Cat == <<"C","a","t">>
dog == <<"d","o","g">>
Dot == <<".">>
Space == <<" ">>
Lexemes == {The, cat, Cat, dog, Dot}

\* "The cat sat. The cat ate fish. Dogs bark loudly. Fish swim fast."
CatDoc ==
    << The, cat, <<"s","a","t">>, Dot,
       The, cat, <<"a","t","e">>, <<"f","i","s","h">>, Dot,
       <<"D","o","g","s">>, <<"b","a","r","k">>, <<"l","o","u","d","l","y">>, Dot,
       <<"F","i","s","h">>, <<"s","w","i","m">>, <<"f","a","s","t">>, Dot >>

PlainTexts == UNION {[1..n -> Lexemes] : n \in 0..MaxLen}
PaddedTexts ==
    {<<Space>> \o t \o <<Space>> :
        t \in UNION {[1..n -> Lexemes] : n \in 0..MaxPadded}}
Texts == PlainTexts \cup PaddedTexts \cup {CatDoc}

\* the request field summary_sentences: absent, or a string
FormStrings ==
    {<<DigitSeq[d + 1]>> : d \in 0..MaxCount}
      \cup {<<"-", DigitSeq[d + 1]>> : d \in 1..MaxCount}
      \cup {<<"x">>, <<>>}
FormValues ==
    {[present |-> FALSE, value |-> <<>>]}
      \cup {[present |-> TRUE, value |-> s] : s \in FormStrings}

\* stopwords.words("english"), the entries the vocabulary can meet
stop_words == {<<"t","h","e">>, <<"i","s">>, <<"a">>, <<"a","n","d">>}

(* ---------------------------- int() ------------------------------------ *)
RECURSIVE DigitsValue(_, _)
DigitsValue(s, acc) ==
    IF s = <<>> THEN acc
    ELSE DigitsValue(Tail(s),
           10 * acc + ((CHOOSE i \in DOMAIN DigitSeq : DigitSeq[i] = Head(s)) - 1))

IsDigits(s) == Len(s) > 0 /\ \A i \in DOMAIN s : s[i] \in Range(DigitSeq)

\* int(str): optional sign, then decimal digits; anything else is ValueError
PyInt(s) ==
    IF IsDigits(s) THEN [ok |-> TRUE, val |-> DigitsValue(s, 0)]
    ELSE IF Len(s) > 1 /\ Head(s) = "-" /\ IsDigits(Tail(s))
         THEN [ok |-> TRUE, val |-> 0 - DigitsValue(Tail(s), 0)]
    ELSE IF Len(s) > 1 /\ Head(s) = "+" /\ IsDigits(Tail(s))
         THEN [ok |-> TRUE, val |-> DigitsValue(Tail(s), 0)]
    ELSE [ok |-> FALSE, val |-> 0]

\* int(request.form.get('summary_sentences', 2))
DefaultCount == 2
ParseCount(f) ==
    IF f.present THEN PyInt(f.value) ELSE [ok |-> TRUE, val |-> DefaultCount]

(* ---------------------------- tokenizers ------------------------------- *)
RECURSIVE StripLeft(_)
StripLeft(t) ==
    IF t # <<>> /\ IsSpace(Head(t)) THEN StripLeft(Tail(t)) ELSE t

RECURSIVE StripRight(_)
StripRight(t) ==
    IF t # <<>> /\ IsSpace(t[Len(t)])
    THEN StripRight(SubSeq(t, 1, Len(t) - 1))
    ELSE t

\* str.strip()
strip(t) == StripRight(StripLeft(t))

\* a blank test that forgets to strip the text
IsBlankNoStrip(t) == t = <<>>

\* not text.strip()
IsBlank(t) == strip(t) = <<>>

\* sent_tokenize: a sentence ends after a full stop; whitespace around a
\* sentence is not part of it; text after the last full stop is a sentence
RECURSIVE SentSplit(_, _, _)
SentSplit(t, cur, acc) ==
    IF t = <<>>
    THEN IF strip(cur) = <<>> THEN acc ELSE Append(acc, strip(cur))
    ELSE IF Head(t) = Dot
         THEN SentSplit(Tail(t), <<>>, Append(acc, strip(Append(cur, Dot))))
         ELSE SentSplit(Tail(t), Append(cur, Head(t)), acc)

sent_tokenize(t) == SentSplit(t, <<>>, <<>>)

\* word_tokenize: the words and punctuation marks, whitespace dropped
word_tokenize(t) == SelectSeq(t, LAMBDA w : ~IsSpace(w))

(* ---------------------------- frequency table -------------------------- *)
\* a filter that looks the token up in stop_words without lower-casing it
KeepWordCaseSensitive(w) == isalnum(w) /\ w \notin stop_words

\* [w.lower() for w in word_tokenize(text)
\*    if w.isalnum() and w.lower() not in stop_words]
KeepWord(w) == isalnum(w) /\ lower(w) \notin stop_words

RECURSIVE ContentWords(_)
ContentWords(toks) ==
    IF toks = <<>> THEN <<>>
    ELSE IF KeepWord(Head(toks))
         THEN <<lower(Head(toks))>> \o ContentWords(Tail(toks))
         ELSE ContentWords(Tail(toks))

\* Counter(words): one pass, a new key starts at 1, a known key is incremented
RECURSIVE Counter(_, _)
Counter(ws, acc) ==
    IF ws = <<>> THEN acc
    ELSE LET w == Head(ws)
         IN  IF w \in DOMAIN acc
             THEN Counter(Tail(ws), [acc EXCEPT ![w] = @ + 1])
             ELSE Counter(Tail(ws),
                          [k \in DOMAIN acc \cup {w} |->
                              IF k = w THEN 1 ELSE acc[k]])

EmptyTable == [k \in {} |-> 0]

build_frequency_table(t) == Counter(ContentWords(word_tokenize(t)), EmptyTable)

(* ---------------------------- sentence score --------------------------- *)
\* sum(word_freq[w.lower()] for w in word_tokenize(sent)
\*       if w.isalnum() and w.lower() in word_freq)
RECURSIVE ScoreSum(_, _)
ScoreSum(toks, freq) ==
    IF toks = <<>> THEN 0
    ELSE (IF isalnum(Head(toks)) /\ lower(Head(toks)) \in DOMAIN freq
          THEN freq[lower(Head(toks))] ELSE 0)
         + ScoreSum(Tail(toks), freq)

\* a plain average: the denominator without the + 1
DenominatorPlain(sent) == Len(word_tokenize(sent))

\* score / (len(word_tokenize(sent)) + 1), kept as <<numerator, denominator>>
Denominator(sent) == Len(word_tokenize(sent)) + 1

score(sent, freq) == <<ScoreSum(word_tokenize(sent), freq), Denominator(sent)>>

\* comparison of two quotients with positive denominators
ScoreLess(a, b) == a[1] * b[2] < b[1] * a[2]
ScoreEq(a, b) == a[1] * b[2] = b[1] * a[2]

\* the dict sentence_scores, keyed by the 0-based index of the sentence
ScoreAll(sents, freq) ==
    [i \in 0..(Len(sents) - 1) |-> score(sents[i + 1], freq)]

\* sentence_scores.items(): pairs <<index, score>> in insertion order
items(scores) == [p \in 1..Cardinality(DOMAIN scores) |-> <<p - 1, scores[p - 1]>>]

(* ---------------------------- selection -------------------------------- *)
\* sorted(..., key=lambda x: x[0]): stable, ascending index
RECURSIVE InsertByIndex(_, _)
InsertByIndex(s, x) ==
    IF s = <<>> THEN <<x>>
    ELSE IF x[1] < Head(s)[1] THEN <<x>> \o s
         ELSE <<Head(s)>> \o InsertByIndex(Tail(s), x)

RECURSIVE SortByIndex(_, _)
SortByIndex(s, acc) ==
    IF s = <<>> THEN acc ELSE SortByIndex(Tail(s), InsertByIndex(acc, Head(s)))

\* a descending sort that puts a new element before its equals
RECURSIVE InsertByScoreDescUnstable(_, _)
InsertByScoreDescUnstable(s, x) ==
    IF s = <<>> THEN <<x>>
    ELSE IF ~ScoreLess(x[2], Head(s)[2]) THEN <<x>> \o s
         ELSE <<Head(s)>> \o InsertByScoreDescUnstable(Tail(s), x)

\* sorted(..., key=lambda x: x[1], reverse=True): descending score, and
\* elements of equal score keep the order they had (reverse keeps stability)
RECURSIVE InsertByScoreDesc(_, _)
InsertByScoreDesc(s, x) ==
    IF s = <<>> THEN <<x>>
    ELSE IF ScoreLess(Head(s)[2], x[2]) THEN <<x>> \o s
         ELSE <<Head(s)>> \o InsertByScoreDesc(Tail(s), x)

RECURSIVE SortByScoreDesc(_, _)
SortByScoreDesc(s, acc) ==
    IF s = <<>> THEN acc
    ELSE SortByScoreDesc(Tail(s), InsertByScoreDesc(acc, Head(s)))

\* the slice s[:k] of Python: a negative k counts from the end
PySlice(s, k) ==
    IF k >= 0
    THEN SubSeq(s, 1, IF k < Len(s) THEN k ELSE Len(s))
    ELSE SubSeq(s, 1, IF Len(s) + k > 0 THEN Len(s) + k ELSE 0)

\* sorted(sentence_scores.items(), key=lambda x: x[0])[:summary_sentences]
Pool(scores, k) == PySlice(SortByIndex(items(scores), <<>>), k)

\* sorted(Pool, key=lambda x: x[1], reverse=True)
Rank(scores, k) == SortByScoreDesc(Pool(scores, k), <<>>)

\* a summary that ignores the ranking and takes every sentence
SummaryOfAll(top, sents) == sents

\* [sentences[i] for i, _ in top_sentences]
SummaryOf(top, sents) == [p \in 1..Len(top) |-> sents[top[p][1] + 1]]

\* the two input guards and the pass-through test
MinSentences == 2
TooFew(sents) == Len(sents) < MinSentences
\* a pass-through test that misses the case of exactly k sentences
PassThroughStrict(sents, k) == Len(sents) < k
PassThrough(sents, k) == Len(sents) <= k

(* ---------------------------- state ------------------------------------ *)
VARIABLES
    pc,                 \* "pending": request received; "done": response sent
    method,             \* request.method
    text,               \* request.form['text']
    form_count,         \* request.form['summary_sentences'], may be absent
    assigned,           \* the locals of summarize() bound when it returned
    summary_sentences,  \* local: the requested count
    sentences,          \* local: sent_tokenize(text)
    word_freq,          \* local: Counter(words)
    sentence_scores,    \* local: index -> score
    top_sentences,      \* local: ranked pairs <<index, score>>
    summary,            \* local: the selected sentences
    response            \* the (body, status) returned

vars == <<pc, method, text, form_count, assigned, summary_sentences, sentences,
          word_freq, sentence_scores, top_sentences, summary, response>>

NoResponse == [status |-> 0, body |-> "", lines |-> <<>>]

Init ==
    /\ pc = "pending"
    /\ \/ method = "GET" /\ text = <<>> /\ form_count \in {f \in FormValues : ~f.present}
       \/ method = "POST" /\ text \in Texts /\ form_count \in FormValues
    /\ assigned = {}
    /\ summary_sentences = 0
    /\ sentences = <<>>
    /\ word_freq = EmptyTable
    /\ sentence_scores = <<>>
    /\ top_sentences = <<>>
    /\ summary = <<>>
    /\ response = NoResponse

\* the frame of summarize() before any local is bound
NoLocals ==
    [assigned |-> {}, summary_sentences |-> 0, sentences |-> <<>>,
     word_freq |-> EmptyTable, sentence_scores |-> <<>>,
     top_sentences |-> <<>>, summary |-> <<>>, response |-> NoResponse]

Reply(status, body, lines) == [status |-> status, body |-> body, lines |-> lines]

\* the body of summarize() for a POST, lines 136-154: the frame at return
Handle(t, f) ==
    LET parsed == ParseCount(f)
        k      == parsed.val
        f1     == [NoLocals EXCEPT !.assigned = {"summary_sentences"},
                                   !.summary_sentences = k]
    IN
    IF ~parsed.ok
    THEN \* int() raises ValueError: the framework answers 500
         [NoLocals EXCEPT !.response = Reply(500, "Internal Server Error", <<>>)]
    ELSE IF IsBlank(t)
    THEN [f1 EXCEPT !.response = Reply(400, "Please enter some text.", <<>>)]
    ELSE
    LET sents == sent_tokenize(t)
        f2    == [f1 EXCEPT !.assigned = @ \cup {"sentences"},
                            !.sentences = sents]
    IN
    IF TooFew(sents)
    THEN [f2 EXCEPT !.response =
             Reply(400, "Please enter at least two sentences.", <<>>)]
    ELSE IF PassThrough(sents, k)
    THEN [f2 EXCEPT !.response = Reply(200, "", sents)]
    ELSE
    LET freq   == build_frequency_table(t)
        scores == ScoreAll(sents, freq)
        top    == Rank(scores, k)
        summ   == SummaryOf(top, sents)
    IN  [f2 EXCEPT !.assigned = @ \cup {"word_freq", "sentence_scores",
                                        "top_sentences", "summary"},
                   !.word_freq = freq,
                   !.sentence_scores = scores,
                   !.top_sentences = top,
                   !.summary = summ,
                   !.response = Reply(200, "<pre>", summ)]

Return(frame) ==
    /\ assigned' = frame.assigned
    /\ summary_sentences' = frame.summary_sentences
    /\ sentences' = frame.sentences
    /\ word_freq' = frame.word_freq
    /\ sentence_scores' = frame.sentence_scores
    /\ top_sentences' = frame.top_sentences
    /\ summary' = frame.summary
    /\ response' = frame.response
    /\ pc' = "done"
    /\ UNCHANGED <<method, text, form_count>>

\* GET /summarize: the form page, lines 155-171
SummarizeGet ==
    /\ pc = "pending"
    /\ method = "GET"
    /\ Return([NoLocals EXCEPT !.response = Reply(200, "html", <<>>)])

\* POST /summarize, lines 135-154
SummarizePost ==
    /\ pc = "pending"
    /\ method = "POST"
    /\ Return(Handle(text, form_count))

Next == SummarizeGet \/ SummarizePost

Spec == Init /\ [][Next]_vars

(* ======================= properties of summarize ======================= *)
Done == pc = "done"
Posted == Done /\ method = "POST"
CountParsed == "summary_sentences" \in assigned
Split == "sentences" \in assigned
Scored == "top_sentences" \in assigned
Succeeded == Posted /\ response.status = 200

Min(a, b) == IF a < b THEN a ELSE b
Max(a, b) == IF a < b THEN b ELSE a

\* document indexes of the returned sentences, in the order returned
OutIndexes ==
    IF Scored
    THEN [p \in 1..Len(top_sentences) |-> top_sentences[p][1]]
    ELSE [p \in 1..Len(response.lines) |-> p - 1]

\* the text holds nothing but whitespace
OnlyWhitespace(t) == \A i \in DOMAIN t : \A j \in DOMAIN t[i] : t[i][j] = " "

\* indexes taken by the pre-filter [:k] over n sentences in ascending order
PoolIndexes(n, k) == {i \in 0..(n - 1) : IF k >= 0 THEN i < k ELSE i < n + k}

RECURSIVE SumOver(_, _)
SumOver(S, f) ==
    IF S = {} THEN 0
    ELSE LET x == CHOOSE y \in S : TRUE IN f[x] + SumOver(S \ {x}, f)

\* positions of the alphanumeric tokens of toks whose lower-cased form is w
Occurrences(toks, w) ==
    {j \in DOMAIN toks : isalnum(toks[j]) /\ lower(toks[j]) = w}

\* C1: every returned summary lists its sentences by strictly increasing
\* document index, in the pass-through branch and in the scored branch.
C1_OrderPreserved ==
    Succeeded =>
        \A p, q \in DOMAIN OutIndexes : p < q => OutIndexes[p] < OutIndexes[q]

\* C2: no sentence whose 0-based document index is >= the requested count k
\* appears in the output, whatever the integer k.
C2_PositionalCeiling ==
    Succeeded =>
        \A p \in DOMAIN OutIndexes : OutIndexes[p] < summary_sentences

\* C3: with an integer count, a blank text is answered by the BlankText error
\* before sentence splitting, and a non-blank text of fewer than 2 sentences
\* by the InsufficientSentences error before any counting, scoring or
\* selection; neither returns a sentence.
C3_GuardEnforcement ==
    (Posted /\ CountParsed) =>
        /\ OnlyWhitespace(text) =>
              /\ response = Reply(400, "Please enter some text.", <<>>)
              /\ assigned = {"summary_sentences"}
        /\ ~OnlyWhitespace(text) =>
              /\ Split
              /\ Len(sentences) < 2 =>
                    /\ response =
                         Reply(400, "Please enter at least two sentences.", <<>>)
                    /\ assigned = {"summary_sentences", "sentences"}
              /\ Len(sentences) >= 2 => response.status = 200

C3_Witness ==
    /\ Posted /\ CountParsed /\ Split
    /\ Len(sentences) = 1
    /\ summary_sentences = 1
    /\ response.status = 400

\* C4: with n >= 2 sentences and k >= n the response is all n sentences in
\* document order, and neither the frequency table nor any score was built.
C4_PassThrough ==
    (Posted /\ Split /\ Len(sentences) >= 2
       /\ summary_sentences >= Len(sentences)) =>
        /\ response.status = 200
        /\ response.lines = sentences
        /\ response.lines = sent_tokenize(text)
        /\ assigned = {"summary_sentences", "sentences"}

C4_Witness ==
    /\ Posted /\ Split
    /\ Len(sentences) = 3
    /\ summary_sentences = 3
    /\ response.status = 200
    /\ sentences[1] # sentences[2]

\* C5: on the four-sentence cat text with k = 2 the response is
\* ["The cat sat.", "The cat ate fish."], sentence 0 before sentence 1.
C5_ConcreteScenario ==
    (Posted /\ text = CatDoc /\ CountParsed /\ summary_sentences = 2) =>
        /\ word_freq[cat] = 2 /\ word_freq[<<"f","i","s","h">>] = 2
        /\ {top_sentences[p][1] : p \in DOMAIN top_sentences} = {0, 1}
        /\ response.lines =
             << <<The, cat, <<"s","a","t">>, Dot>>,
                <<The, cat, <<"a","t","e">>, <<"f","i","s","h">>, Dot>> >>

\* C6: a returned summary has at most max(k, n) sentences and never more
\* than the positional candidate pool holds.
C6_CountBound ==
    Succeeded =>
        /\ Len(response.lines) <= Max(summary_sentences, Len(sentences))
        /\ Len(response.lines) <=
              Cardinality(PoolIndexes(Len(sentences), summary_sentences))

C6_Witness ==
    /\ Succeeded /\ Scored
    /\ Len(sentences) = 3
    /\ summary_sentences = 2
    /\ Len(response.lines) = 2

\* C7: every successful response on n >= 2 sentences holds exactly min(k, n)
\* sentences and at least one.
C7_ClampedCount ==
    Succeeded =>
        /\ Len(response.lines) = Min(summary_sentences, Len(sentences))
        /\ Len(response.lines) >= 1

\* C8: in the ranking of the pool, sentences of equal score stand in
\* ascending index order; with an empty frequency table the ranking is the
\* pool in ascending index order, 0..k-1 for a count k >= 0.
C8_TieBreak ==
    (Posted /\ Scored) =>
        /\ \A p, q \in DOMAIN top_sentences :
              (p < q /\ ScoreEq(top_sentences[p][2], top_sentences[q][2]))
                 => top_sentences[p][1] < top_sentences[q][1]
        /\ DOMAIN word_freq = {} =>
              /\ \A i \in 0..(Len(sentences) - 1) : sentence_scores[i][1] = 0
              /\ \A p \in DOMAIN top_sentences : top_sentences[p][1] = p - 1
              /\ Len(top_sentences) =
                    Cardinality(PoolIndexes(Len(sentences), summary_sentences))
              /\ summary_sentences >= 0 =>
                    Len(top_sentences) = summary_sentences

C8_Witness ==
    /\ Posted /\ Scored
    /\ Len(sentences) = 3
    /\ \E p, q \in DOMAIN top_sentences :
          /\ p < q
          /\ top_sentences[p][2][1] > 0
          /\ top_sentences[p][2] = top_sentences[q][2]

\* C9: the score of a sentence is the sum, over its alphanumeric tokens whose
\* lower-cased form is a key of the table, of that key's count, over the
\* number of tokens of the sentence plus one; it is never negative, its
\* denominator is positive, and it is zero exactly when no token is a key.
C9_ScoreFormula ==
    (Posted /\ "sentence_scores" \in assigned) =>
        /\ DOMAIN sentence_scores = 0..(Len(sentences) - 1)
        /\ \A i \in DOMAIN sentence_scores :
              LET toks == word_tokenize(sentences[i + 1])
                  hits == [w \in DOMAIN word_freq |->
                              word_freq[w] * Cardinality(Occurrences(toks, w))]
                  num  == SumOver(DOMAIN word_freq, hits)
              IN  /\ sentence_scores[i] = <<num, Len(toks) + 1>>
                  /\ sentence_scores[i][1] >= 0
                  /\ sentence_scores[i][2] > 0
                  /\ sentence_scores[i][1] = 0 <=>
                        \A j \in DOMAIN toks :
                            ~(isalnum(toks[j])
                                /\ lower(toks[j]) \in DOMAIN word_freq)

C9_Witness ==
    /\ Posted /\ "sentence_scores" \in assigned
    /\ \E i \in DOMAIN sentence_scores :
          /\ sentence_scores[i] = <<3, 4>>
          /\ Cardinality(DOMAIN word_freq) = 2
    /\ \E i \in DOMAIN sentence_scores : sentence_scores[i][1] = 0

\* C10: the table maps w to c exactly when c >= 1 is the number of
\* alphanumeric document tokens whose lower-cased form is w and w is no stop
\* word; keys are lower-case and alphanumeric, and the counts add up to the
\* number of retained tokens.
C10_FrequencyTable ==
    (Posted /\ "word_freq" \in assigned) =>
        LET toks     == word_tokenize(text)
            retained == {j \in DOMAIN toks :
                            isalnum(toks[j]) /\ lower(toks[j]) \notin stop_words}
        IN  /\ DOMAIN word_freq = {lower(toks[j]) : j \in retained}
            /\ \A w \in DOMAIN word_freq :
                  /\ word_freq[w] = Cardinality(Occurrences(toks, w))
                  /\ word_freq[w] >= 1
                  /\ w \notin stop_words
                  /\ isalnum(w)
                  /\ \A c \in DOMAIN w : w[c] \notin UpperChars
            /\ SumOver(DOMAIN word_freq, word_freq) = Cardinality(retained)

C10_Witness ==
    /\ Posted /\ "word_freq" \in assigned
    /\ \E i, j, l \in DOMAIN text :
          text[i] = The /\ text[j] = Cat /\ text[l] = cat
    /\ summary_sentences = 1
    /\ cat \in DOMAIN word_freq /\ word_freq[cat] = 2
    /\ dog \in DOMAIN word_freq

====
